---- MODULE Spec2Model ----
(***************************************************************************)
(* Model of VideoService (adaptive-bitrate packaging pipeline):            *)
(* convertToHLS with its ffmpeg event handlers, generateMasterPlaylist,    *)
(* generateThumbnail, the processingJobs registry and cleanupOldJobs.      *)
(*                                                                         *)
(* One step of the model is one run-to-completion turn of the Node event   *)
(* loop: an I/O callback together with all the promise continuations       *)
(* (microtasks) it triggers.                                               *)
(***************************************************************************)
EXTENDS Integers, Sequences, FiniteSets, TLC

(***************************************************************************)
(* Bounds of the model.                                                    *)
(***************************************************************************)
\* SpecPipeline configures the first LadderLen entries of BITRATE_LADDER
LadderLen == 2
\* the clock is advanced at most MaxTicks times
MaxTicks == 2

\* job ids handed out by uuidv4(): distinct, each used once
Uuids == {"job-a", "job-b"}

(***************************************************************************)
(* Program constants.                                                      *)
(***************************************************************************)
BITRATE_LADDER ==
  << [resolution |-> "426x240",   videoBitrate |-> "400k",  audioBitrate |-> "64k",  name |-> "240p"],
     [resolution |-> "640x360",   videoBitrate |-> "800k",  audioBitrate |-> "96k",  name |-> "360p"],
     [resolution |-> "854x480",   videoBitrate |-> "1200k", audioBitrate |-> "128k", name |-> "480p"],
     [resolution |-> "1280x720",  videoBitrate |-> "2500k", audioBitrate |-> "128k", name |-> "720p"],
     [resolution |-> "1920x1080", videoBitrate |-> "5000k", audioBitrate |-> "192k", name |-> "1080p"] >>

\* cleanupOldJobs(maxAgeHours: number = 24)
DefaultMaxAgeHours == 24

\* maxAgeHours * 60 * 60 * 1000
MsPerHour == 60 * 60 * 1000

(***************************************************************************)
(* Inputs from the environment.                                            *)
(***************************************************************************)
\* progress.percent as reported by ffmpeg; NoPercent is an event without it
NoPercent == -1
Percents == {NoPercent, 0, 25, 100}

\* values thrown/rejected by ffmpeg and fs: Error objects carry the message
\* of the failed command; the second value is a rejection that is no Error
Errors == { [isError |-> TRUE,  message |-> "ffmpeg exited with code 1"],
            [isError |-> FALSE, message |-> ""] }

\* arguments of cleanupOldJobs
MaxAges == {0, 1, DefaultMaxAgeHours}

\* amounts (in hours) by which the wall clock advances between two turns
TickHours == {1, 24}

\* new Date(ms).toISOString(): the date and hour, and the rest down to the
\* millisecond, both printed with a fixed number of digits
toISOString(ms) == [hour |-> ms \div MsPerHour, millis |-> ms % MsPerHour]

\* new Date(iso).getTime()
getTime(iso) == iso.hour * MsPerHour + iso.millis

\* absent optional fields of VideoProcessingJob
NoTime == [hour |-> -1, millis |-> 0]
NoError == "<undefined>"

(***************************************************************************)
(* State.                                                                  *)
(***************************************************************************)
VARIABLES
  ladder,          \* CONSTANTS.BITRATE_LADDER as configured; never changes
  now,             \* Date.now(), in ms
  processingJobs,  \* keys of the Map VideoService.processingJobs
  job,             \* the VideoProcessingJob object of each convertToHLS call
  pc,              \* where each convertToHLS call is suspended
  variant,         \* state of each ladder entry's map callback / ffmpeg command
  lastPercent,     \* progress.percent last reported by each running ffmpeg command
  outputPaths,     \* the local array outputPaths of each convertToHLS call
  files,           \* files existing under each call's outputDir
  gauge,           \* metrics.videoProcessingJobs, by status label
  probe,           \* state of the promise of getVideoMetadata of each upload
  video,           \* the VideoMetadata object of each upload
  videoMetadata,   \* keys of the Map VideoController.videoMetadata
  process,         \* where each processVideoAsync call is suspended
  response,        \* the body each upload request has been answered with
  r_frame_rate,    \* videoStream.r_frame_rate handed to parseFrameRate
  frameRate        \* what parseFrameRate returned for it

\* the state of VideoService
service == <<ladder, now, processingJobs, job, pc, variant, lastPercent, outputPaths, files, gauge>>

\* the state of VideoController
controller == <<probe, video, videoMetadata, process, response>>

\* one call of parseFrameRate
ffprobe == <<r_frame_rate, frameRate>>

vars == <<ladder, now, processingJobs, job, pc, variant, lastPercent, outputPaths, files, gauge,
          probe, video, videoMetadata, process, response, r_frame_rate, frameRate>>

Statuses == {"queued", "processing", "completed", "failed"}

\* path.join(outputDir, 'master.m3u8'), relative to outputDir
masterPlaylistPath == "master.m3u8"

\* path.join(outputDir, 'thumbnail.jpg'), relative to outputDir
thumbnailPath == "thumbnail.jpg"

\* path.join(path.join(outputDir, variant.name), 'playlist.m3u8')
playlistPath(i) == ladder[i].name \o "/playlist.m3u8"

\* CONSTANTS.BITRATE_LADDER.length
N == Len(ladder)

\* the object a call has before convertToHLS builds it
NoJob == [status |-> "none", progress |-> 0, startedAt |-> NoTime,
          completedAt |-> NoTime, error |-> NoError, outputPaths |-> <<>>]

\* hlsPath and the other optional fields while not assigned
Undefined == "<undefined>"

\* no VideoMetadata object yet
NoVideo ==
  [duration |-> 0, width |-> 0, height |-> 0, bitrate |-> 0,
   codec |-> Undefined, frameRate |-> 0, isProcessed |-> FALSE,
   processingStatus |-> "none", hlsPath |-> Undefined]

\* no res.json(...) yet
NoResponse == [status |-> 0, data |-> NoVideo]

\* the calls of convertToHLS of a run, by the id uuidv4() gives each
JobIds == DOMAIN job

\* the state after construction, for a given configuration of the ladder and
\* the ids of the calls to come
InitWith(configured, ids) ==
  /\ ladder = configured
  /\ now = 0
  /\ processingJobs = {}
  /\ job = [j \in ids |-> NoJob]
  /\ pc = [j \in ids |-> "idle"]
  /\ variant = [j \in ids |-> [i \in 1..N |-> "idle"]]
  /\ lastPercent = [j \in ids |-> [i \in 1..N |-> 0]]
  /\ outputPaths = [j \in ids |-> <<>>]
  /\ files = [j \in ids |-> {}]
  /\ gauge = [s \in {"processing", "completed", "failed"} |-> 0]
  /\ probe = [j \in ids |-> "idle"]
  /\ video = [j \in ids |-> NoVideo]
  /\ videoMetadata = {}
  /\ process = [j \in ids |-> "idle"]
  /\ response = [j \in ids |-> NoResponse]

\* a string argument: undefined, or the characters of the string
NoString == [defined |-> FALSE, chars |-> <<>>]

\* no return value yet
NotReturned == [returned |-> FALSE, value |-> 0]

\* no call of parseFrameRate
NoFfprobe == r_frame_rate = NoString /\ frameRate = NotReturned

\* several calls of convertToHLS, over a ladder of one entry
Init == InitWith(SubSeq(BITRATE_LADDER, 1, 1), Uuids) /\ NoFfprobe

\* one call of convertToHLS, over a ladder of LadderLen entries
InitPipeline ==
  InitWith(SubSeq(BITRATE_LADDER, 1, LadderLen), {"job-a"}) /\ NoFfprobe

(***************************************************************************)
(* Pure helpers.                                                           *)
(***************************************************************************)
MathFloor(num, den) == num \div den

\* Math.round(num / den) for den > 0: the nearest integer, halves upwards
MathRound(num, den) == (2 * num + den) \div (2 * den)

\* progress.percent || 0
PercentOrZero(percent) == IF percent = NoPercent THEN 0 ELSE percent

\* Math.round(((index + (progress.percent || 0) / 100) / BITRATE_LADDER.length) * 100)
\* index is the 0-based index of the ladder entry
overallProgress(index, percent) ==
  MathRound(100 * index + PercentOrZero(percent), N)

ErrorMessageUnchecked(err) == err.message

\* error instanceof Error ? error.message : 'Unknown error'
ErrorMessage(err) == IF err.isError THEN err.message ELSE "Unknown error"

\* processingJobs.get(jobId): the job, or NoJob for undefined
getProcessingJob(j) == IF j \in processingJobs THEN job[j] ELSE NoJob

\* Array.from(processingJobs.values())
getAllProcessingJobs == {job[j] : j \in processingJobs}

\* number of clock advances that lead to time t
TicksOf(t) == ((t \div MsPerHour) % 24) + ((t \div MsPerHour) \div 24)

FileOf(path, complete) == [path |-> path, complete |-> complete]

Exists(j, path) == \E f \in files[j] : f.path = path

(***************************************************************************)
(* generateMasterPlaylist.  A string the code takes apart is modelled by   *)
(* the sequence of its characters; a template literal by the sequence of   *)
(* its pieces, the line being their concatenation.                         *)
(***************************************************************************)
\* the characters of the bitrate strings of BITRATE_LADDER
Chars(str) ==
  CASE str = "400k"  -> <<"4", "0", "0", "k">>
    [] str = "800k"  -> <<"8", "0", "0", "k">>
    [] str = "1200k" -> <<"1", "2", "0", "0", "k">>
    [] str = "2500k" -> <<"2", "5", "0", "0", "k">>
    [] str = "5000k" -> <<"5", "0", "0", "0", "k">>
    [] str = "64k"   -> <<"6", "4", "k">>
    [] str = "96k"   -> <<"9", "6", "k">>
    [] str = "128k"  -> <<"1", "2", "8", "k">>
    [] str = "192k"  -> <<"1", "9", "2", "k">>

Digits == <<"0", "1", "2", "3", "4", "5", "6", "7", "8", "9">>

IsDigit(c) == \E d \in 1..10 : Digits[d] = c

DigitValue(c) == (CHOOSE d \in 1..10 : Digits[d] = c) - 1

\* String.prototype.replace(pattern, replacement) with a string pattern of
\* one character: the first occurrence only
replace(chars, pattern, replacement) ==
  IF \E k \in 1..Len(chars) : chars[k] = pattern
  THEN LET k == CHOOSE x \in 1..Len(chars) :
                  /\ chars[x] = pattern
                  /\ \A y \in 1..(x - 1) : chars[y] # pattern
       IN  SubSeq(chars, 1, k - 1) \o replacement \o SubSeq(chars, k + 1, Len(chars))
  ELSE chars

\* the number of leading digits of chars
LeadingDigits(chars) ==
  CHOOSE n \in 0..Len(chars) :
    /\ \A k \in 1..n : IsDigit(chars[k])
    /\ n < Len(chars) => ~IsDigit(chars[n + 1])

\* the value of the first n characters of chars, all digits
ParseDigits(chars, n) ==
  LET value[k \in 0..n] ==
        IF k = 0 THEN 0 ELSE 10 * value[k - 1] + DigitValue(chars[k])
  IN  value[n]

\* the result NaN of parseInt
NaN == -1

\* parseInt(string) of a string without sign or leading blanks
parseInt(chars) ==
  IF LeadingDigits(chars) = 0 THEN NaN
  ELSE ParseDigits(chars, LeadingDigits(chars))

BandwidthVideoOnly(v) ==
  parseInt(replace(Chars(v.videoBitrate), "k", <<"0", "0", "0">>))

\* parseInt(variant.videoBitrate.replace('k', '000')) +
\* parseInt(variant.audioBitrate.replace('k', '000'))
Bandwidth(v) ==
  parseInt(replace(Chars(v.videoBitrate), "k", <<"0", "0", "0">>))
  + parseInt(replace(Chars(v.audioBitrate), "k", <<"0", "0", "0">>))

StreamBlockNoBlank(v) ==
  << << "#EXT-X-STREAM-INF:BANDWIDTH=", ToString(Bandwidth(v)),
        ",RESOLUTION=", v.resolution,
        ",CODECS=\"avc1.42e00a,mp4a.40.2\"" >>,
     << v.name, "/playlist.m3u8" >> >>

\* the three strings pushed for one ladder entry
StreamBlock(v) ==
  << << "#EXT-X-STREAM-INF:BANDWIDTH=", ToString(Bandwidth(v)),
        ",RESOLUTION=", v.resolution,
        ",CODECS=\"avc1.42e00a,mp4a.40.2\"" >>,
     << v.name, "/playlist.m3u8" >>,
     << "" >> >>

\* the ladder entries in the order in which their encodes ended
RECURSIVE FinishOrder(_, _)
FinishOrder(j, paths) ==
  IF paths = <<>> THEN <<>>
  ELSE (IF \E i \in 1..N : playlistPath(i) = Head(paths)
        THEN <<CHOOSE i \in 1..N : playlistPath(i) = Head(paths)>>
        ELSE <<>>) \o FinishOrder(j, Tail(paths))

VariantsAsFinished(j) == FinishOrder(j, outputPaths[j])

\* for (const variant of CONSTANTS.BITRATE_LADDER): the indices visited
VariantsInLadderOrder(j) == [i \in 1..N |-> i]

RECURSIVE StreamBlocks(_)
StreamBlocks(order) ==
  IF order = <<>> THEN <<>>
  ELSE StreamBlock(ladder[Head(order)]) \o StreamBlocks(Tail(order))

\* masterContent, the lines generateMasterPlaylist joins and writes
generateMasterPlaylist(j) ==
  << <<"#EXTM3U">>, <<"#EXT-X-VERSION:3">>, <<"">> >>
  \o StreamBlocks(VariantsInLadderOrder(j))

\* the k-th piece of a template literal, "" beyond its last piece
Piece(pieces, k) == IF k <= Len(pieces) THEN pieces[k] ELSE ""

\* the string a template literal of at most five pieces evaluates to
TemplateString(pieces) ==
  Piece(pieces, 1) \o Piece(pieces, 2) \o Piece(pieces, 3)
  \o Piece(pieces, 4) \o Piece(pieces, 5)

\* Array.prototype.join(separator) of the first n strings of an array
RECURSIVE join(_, _, _)
join(strings, n, separator) ==
  IF n = 0 THEN ""
  ELSE IF n = 1 THEN strings[1]
  ELSE join(strings, n - 1, separator) \o separator \o strings[n]

\* masterContent.join('\n')
MasterText(lines) ==
  join([k \in 1..Len(lines) |-> TemplateString(lines[k])], Len(lines), "\n")

\* master.m3u8 as fs.writeFile leaves it when it returns
MasterFile(j) ==
  [path |-> masterPlaylistPath, complete |-> TRUE,
   content |-> generateMasterPlaylist(j),
   text |-> MasterText(generateMasterPlaylist(j))]

\* the content of a file written in full
Content(j, path) == (CHOOSE f \in files[j] : f.path = path /\ f.complete).content

(***************************************************************************)
(* convertToHLS: the continuations of the try block and the catch block.   *)
(***************************************************************************)
\* catch (error) { job.status = 'failed'; job.error = ...; job.completedAt = ... }
CatchJob(j, err) ==
  [job[j] EXCEPT !.status = "failed",
                 !.error = ErrorMessage(err),
                 !.completedAt = toISOString(now)]

CatchGaugeKeepsProcessing ==
  [gauge EXCEPT !["failed"] = @ + 1]

\* metrics.videoProcessingJobs.dec({ status: 'processing' }); .inc({ status: 'failed' })
CatchGauge ==
  [gauge EXCEPT !["processing"] = @ - 1, !["failed"] = @ + 1]

CompleteJobKeepingPaths(j, paths) ==
  [job[j] EXCEPT !.status = "completed",
                 !.progress = 100,
                 !.completedAt = toISOString(now)]

\* job.status = 'completed'; job.progress = 100; job.completedAt = ...;
\* job.outputPaths = outputPaths
CompleteJob(j, paths) ==
  [job[j] EXCEPT !.status = "completed",
                 !.progress = 100,
                 !.completedAt = toISOString(now),
                 !.outputPaths = paths]

CompleteGauge ==
  [gauge EXCEPT !["processing"] = @ - 1, !["completed"] = @ + 1]

PromiseAny(j, states) ==
  /\ pc[j] = "encoding"
  /\ \E k \in 1..N : states[k] = "end"

\* await Promise.all(promises) resumes the try block: the call is still
\* waiting there and every promise of `states` is resolved
PromiseAllSettled(j, states) ==
  \A k \in 1..N : states[k] \in {"end", "error"}

PromiseAll(j, states) ==
  /\ pc[j] = "encoding"
  /\ \A k \in 1..N : states[k] = "end"

RejectSwallowed(j, err) ==
  UNCHANGED <<job, gauge, pc>>

RejectEveryCall(j, err) ==
  /\ job' = [k \in JobIds |->
               IF pc[k] = "encoding" THEN CatchJob(k, err) ELSE job[k]]
  /\ gauge' = CatchGauge
  /\ pc' = [k \in JobIds |-> IF pc[k] = "encoding" THEN "thrown" ELSE pc[k]]

\* the rejection of one map callback's promise: Promise.all rejects on the
\* first one and the catch block runs; later rejections find it settled
Reject(j, err) ==
  IF pc[j] = "encoding"
  THEN /\ job' = [job EXCEPT ![j] = CatchJob(j, err)]
       /\ gauge' = CatchGauge
       /\ pc' = [pc EXCEPT ![j] = "thrown"]
  ELSE UNCHANGED <<job, gauge, pc>>

NewJobQueued ==
  [status |-> "queued", progress |-> 0, startedAt |-> toISOString(now),
   completedAt |-> NoTime, error |-> NoError, outputPaths |-> <<>>]

\* const job: VideoProcessingJob = { id: jobId, videoId, status: 'processing',
\* progress: 0, startedAt: ..., outputPaths: [] }
NewJob ==
  [status |-> "processing", progress |-> 0, startedAt |-> toISOString(now),
   completedAt |-> NoTime, error |-> NoError, outputPaths |-> <<>>]

(***************************************************************************)
(* Operations.                                                             *)
(***************************************************************************)
convertToHLSToTheEnd(j) ==
  /\ pc[j] = "idle"
  /\ job' = [job EXCEPT ![j] = NewJob]
  /\ processingJobs' = processingJobs \cup {j}
  /\ gauge' = [gauge EXCEPT !["processing"] = @ + 1]
  /\ variant' = [variant EXCEPT ![j] = [i \in 1..N |-> "end"]]
  /\ outputPaths' = [outputPaths EXCEPT ![j] = [i \in 1..N |-> playlistPath(i)]]
  /\ files' = [files EXCEPT ![j] = {FileOf(playlistPath(i), TRUE) : i \in 1..N}]
  /\ pc' = [pc EXCEPT ![j] = "master"]
  /\ UNCHANGED <<ladder, now, lastPercent>>

\* convertToHLS up to `await Promise.all(promises)`: the job is built and
\* registered, and every map callback has called fs.mkdir
convertToHLS(j) ==
  /\ pc[j] = "idle"
  /\ job' = [job EXCEPT ![j] = NewJob]
  /\ processingJobs' = processingJobs \cup {j}
  /\ gauge' = [gauge EXCEPT !["processing"] = @ + 1]
  /\ variant' = [variant EXCEPT ![j] = [i \in 1..N |-> "mkdir"]]
  /\ pc' = [pc EXCEPT ![j] = "encoding"]
  /\ UNCHANGED <<ladder, now, lastPercent, outputPaths, files>>

\* await fs.mkdir(variantDir) returns: the ffmpeg command is built and run
mkdirDone(j, i) ==
  /\ variant[j][i] = "mkdir"
  /\ variant' = [variant EXCEPT ![j][i] = "running"]
  /\ UNCHANGED <<ladder, now, processingJobs, job, pc, lastPercent, outputPaths, files, gauge>>

\* await fs.mkdir(variantDir) throws: the map callback's promise rejects
mkdirFail(j, i, err) ==
  /\ variant[j][i] = "mkdir"
  /\ variant' = [variant EXCEPT ![j][i] = "error"]
  /\ Reject(j, err)
  /\ UNCHANGED <<ladder, now, processingJobs, lastPercent, outputPaths, files>>

\* .on('progress', ...)
\* one ffmpeg command reports its own progress in non-decreasing order
onProgress(j, i, p) ==
  /\ variant[j][i] = "running"
  /\ PercentOrZero(p) >= lastPercent[j][i]
  /\ lastPercent' = [lastPercent EXCEPT ![j][i] = PercentOrZero(p)]
  /\ job' = [job EXCEPT ![j].progress = overallProgress(i - 1, p)]
  /\ UNCHANGED <<ladder, now, processingJobs, pc, variant, outputPaths, files, gauge>>

onEndUnshifts(j, i) ==
  /\ variant[j][i] = "running"
  /\ variant' = [variant EXCEPT ![j][i] = "end"]
  /\ lastPercent' = [lastPercent EXCEPT ![j][i] = 0]
  /\ outputPaths' = [outputPaths EXCEPT ![j] = <<playlistPath(i)>> \o @]
  /\ files' = [files EXCEPT ![j] = @ \cup {FileOf(playlistPath(i), TRUE)}]
  /\ pc' = IF PromiseAll(j, variant'[j])
           THEN [pc EXCEPT ![j] = "master"]
           ELSE pc
  /\ UNCHANGED <<ladder, now, processingJobs, job, gauge>>

\* .on('end', ...); when it resolves the last promise, Promise.all resolves
\* and generateMasterPlaylist runs up to `await fs.writeFile`
onEnd(j, i) ==
  /\ variant[j][i] = "running"
  /\ variant' = [variant EXCEPT ![j][i] = "end"]
  /\ lastPercent' = [lastPercent EXCEPT ![j][i] = 0]
  /\ outputPaths' = [outputPaths EXCEPT ![j] = Append(@, playlistPath(i))]
  /\ files' = [files EXCEPT ![j] = @ \cup {FileOf(playlistPath(i), TRUE)}]
  /\ pc' = IF PromiseAll(j, variant'[j])
           THEN [pc EXCEPT ![j] = "master"]
           ELSE pc
  /\ UNCHANGED <<ladder, now, processingJobs, job, gauge>>

\* .on('error', ...)
onError(j, i, err) ==
  /\ variant[j][i] = "running"
  /\ variant' = [variant EXCEPT ![j][i] = "error"]
  /\ lastPercent' = [lastPercent EXCEPT ![j][i] = 0]
  /\ Reject(j, err)
  /\ UNCHANGED <<ladder, now, processingJobs, outputPaths, files>>

\* fs.writeFile(masterPlaylistPath, ...) returns; outputPaths.push(...);
\* generateThumbnail starts the screenshots command
masterWritten(j) ==
  /\ pc[j] = "master"
  /\ files' = [files EXCEPT ![j] = @ \cup {MasterFile(j)}]
  /\ outputPaths' = [outputPaths EXCEPT ![j] = Append(@, masterPlaylistPath)]
  /\ pc' = [pc EXCEPT ![j] = "thumbnail"]
  /\ UNCHANGED <<ladder, now, processingJobs, job, variant, lastPercent, gauge>>

\* fs.writeFile(masterPlaylistPath, ...) throws: the catch block runs.
\* writeFile is open + write + close: a failure of the open leaves no file,
\* a failure of the write leaves the created file, incomplete
masterWriteFail(j, err, created) ==
  /\ pc[j] = "master"
  /\ files' = IF created
              THEN [files EXCEPT ![j] = @ \cup {FileOf(masterPlaylistPath, FALSE)}]
              ELSE files
  /\ job' = [job EXCEPT ![j] = CatchJob(j, err)]
  /\ gauge' = CatchGauge
  /\ pc' = [pc EXCEPT ![j] = "thrown"]
  /\ UNCHANGED <<ladder, now, processingJobs, variant, lastPercent, outputPaths>>

thumbnailEndForgets(j) ==
  /\ pc[j] = "thumbnail"
  /\ files' = [files EXCEPT ![j] = @ \cup {FileOf(thumbnailPath, TRUE)}]
  /\ outputPaths' = [outputPaths EXCEPT ![j] = Append(@, thumbnailPath)]
  /\ job' = [job EXCEPT ![j] = CompleteJob(j, outputPaths'[j])]
  /\ gauge' = CompleteGauge
  /\ pc' = [pc EXCEPT ![j] = "returned"]
  /\ processingJobs' = processingJobs \ {j}
  /\ UNCHANGED <<ladder, now, variant, lastPercent>>

\* generateThumbnail .on('end'): resolve(thumbnailPath); the path is pushed
\* and the job is completed
thumbnailEnd(j) ==
  /\ pc[j] = "thumbnail"
  /\ files' = [files EXCEPT ![j] = @ \cup {FileOf(thumbnailPath, TRUE)}]
  /\ outputPaths' = [outputPaths EXCEPT ![j] = Append(@, thumbnailPath)]
  /\ job' = [job EXCEPT ![j] = CompleteJob(j, outputPaths'[j])]
  /\ gauge' = CompleteGauge
  /\ pc' = [pc EXCEPT ![j] = "returned"]
  /\ UNCHANGED <<ladder, now, processingJobs, variant, lastPercent>>

thumbnailErrorRollsBack(j) ==
  /\ pc[j] = "thumbnail"
  /\ outputPaths' = [outputPaths EXCEPT ![j] = SubSeq(@, 1, Len(@) - 1)]
  /\ job' = [job EXCEPT ![j] = CompleteJob(j, outputPaths'[j])]
  /\ gauge' = CompleteGauge
  /\ pc' = [pc EXCEPT ![j] = "returned"]
  /\ UNCHANGED <<ladder, now, processingJobs, variant, lastPercent, files>>

thumbnailErrorRejects(j) ==
  /\ pc[j] = "thumbnail"
  /\ job' = [job EXCEPT ![j] = CatchJob(j, CHOOSE err \in Errors : err.isError)]
  /\ gauge' = CatchGauge
  /\ pc' = [pc EXCEPT ![j] = "thrown"]
  /\ UNCHANGED <<ladder, now, processingJobs, variant, lastPercent, outputPaths, files>>

\* generateThumbnail .on('error'): resolve(null); the job is completed
thumbnailError(j) ==
  /\ pc[j] = "thumbnail"
  /\ job' = [job EXCEPT ![j] = CompleteJob(j, outputPaths[j])]
  /\ gauge' = CompleteGauge
  /\ pc' = [pc EXCEPT ![j] = "returned"]
  /\ UNCHANGED <<ladder, now, processingJobs, variant, lastPercent, outputPaths, files>>

IsOldOrAtCutoff(completedTime, cutoff) == completedTime <= cutoff

\* completedTime < cutoff
IsOld(completedTime, cutoff) == completedTime < cutoff

\* the body of the loop of cleanupOldJobs for one entry of the map
CleanupEntry(jobs, j, cutoff) ==
  IF job[j].completedAt # NoTime /\ IsOld(getTime(job[j].completedAt), cutoff)
  THEN jobs \ {j}
  ELSE jobs

\* the loop of cleanupOldJobs over the entries not yet visited
RECURSIVE CleanupLoop(_, _, _)
CleanupLoop(jobs, todo, cutoff) ==
  IF todo = {} THEN jobs
  ELSE LET j == CHOOSE x \in todo : TRUE
       IN  CleanupLoop(CleanupEntry(jobs, j, cutoff), todo \ {j}, cutoff)

cleanupOldJobs(maxAgeHours) ==
  /\ processingJobs' =
       CleanupLoop(processingJobs, processingJobs, now - maxAgeHours * MsPerHour)
  /\ UNCHANGED <<ladder, now, job, pc, variant, lastPercent, outputPaths, files, gauge>>

\* the wall clock advances
Tick(hours) ==
  /\ TicksOf(now) < MaxTicks
  /\ now' = now + hours * MsPerHour
  /\ UNCHANGED <<ladder, processingJobs, job, pc, variant, lastPercent, outputPaths, files, gauge>>

Range(seq) == {seq[k] : k \in 1..Len(seq)}

IsNotThumbnail(path) == path # thumbnailPath

WithoutThumbnail(paths) == SelectSeq(paths, IsNotThumbnail)

(***************************************************************************)
(* VideoController: uploadVideo and processVideoAsync.                     *)
(***************************************************************************)
\* String.prototype.split(separator) with a separator of one character
RECURSIVE split(_, _)
split(chars, separator) ==
  IF \E k \in 1..Len(chars) : chars[k] = separator
  THEN LET k == CHOOSE x \in 1..Len(chars) :
                  /\ chars[x] = separator
                  /\ \A y \in 1..(x - 1) : chars[y] # separator
       IN  <<SubSeq(chars, 1, k - 1)>>
           \o split(SubSeq(chars, k + 1, Len(chars)), separator)
  ELSE <<chars>>

\* a || b for strings: b when a is the empty string
OrElse(chars, default) == IF chars = <<>> THEN default ELSE chars

parseFrameRateTruncating(frameRateStr) ==
  IF ~frameRateStr.defined \/ frameRateStr.chars = <<>> THEN 0
  ELSE LET parts == split(frameRateStr.chars, "/")
           num == parts[1]
           den == IF Len(parts) >= 2 THEN parts[2] ELSE <<"1">>
       IN  MathFloor(parseInt(OrElse(num, <<"0">>)), parseInt(OrElse(den, <<"1">>)))

\* if (!frameRateStr) return 0; const [num, den = '1'] = frameRateStr.split('/');
\* return Math.round(parseInt(num || '0') / parseInt(den || '1'))
parseFrameRate(frameRateStr) ==
  IF ~frameRateStr.defined \/ frameRateStr.chars = <<>> THEN 0
  ELSE LET parts == split(frameRateStr.chars, "/")
           num == parts[1]
           den == IF Len(parts) >= 2 THEN parts[2] ELSE <<"1">>
       IN  MathRound(parseInt(OrElse(num, <<"0">>)), parseInt(OrElse(den, <<"1">>)))

\* the decimal digits of a natural number
RECURSIVE Decimal(_)
Decimal(n) ==
  IF n < 10 THEN <<Digits[n + 1]>>
  ELSE Decimal(n \div 10) \o <<Digits[(n % 10) + 1]>>

StringOf(chars) == [defined |-> TRUE, chars |-> chars]

\* numerators and denominators of the r_frame_rate of a video stream
Numerators == {0, 24, 25, 30, 50, 60, 120, 24000, 30000, 60000}

Denominators == {1, 2, 1000, 1001}

\* the arguments of parseFrameRate: undefined, "", "num", "num/", "num/den"
\* and "/den"
FrameRateStrs ==
  {NoString, StringOf(<<>>)}
  \cup {StringOf(Decimal(n)) : n \in Numerators}
  \cup {StringOf(Decimal(n) \o <<"/">>) : n \in Numerators}
  \cup {StringOf(Decimal(n) \o <<"/">> \o Decimal(d)) :
          n \in Numerators, d \in Denominators}
  \cup {StringOf(<<"/">> \o Decimal(d)) : d \in Denominators}

\* frameRate: this.parseFrameRate(videoStream.r_frame_rate)
callParseFrameRate ==
  /\ ~frameRate.returned
  /\ frameRate' = [returned |-> TRUE, value |-> parseFrameRate(r_frame_rate)]
  /\ UNCHANGED r_frame_rate
  /\ UNCHANGED <<service, controller>>

\* what getVideoMetadata resolves with
ProbeResults ==
  {[duration |-> 12, width |-> 1920, height |-> 1080, bitrate |-> 4800,
    codec |-> "h264",
    frameRate |-> parseFrameRate([defined |-> TRUE,
                                  chars |-> <<"3", "0", "/", "1">>])]}

\* what getVideoMetadata rejects with: the error of ffprobe, or no video stream
ProbeErrors ==
  {[isError |-> TRUE, message |-> "ffprobe exited with code 1"],
   [isError |-> TRUE, message |-> "No video stream found"]}

\* const videoMetadata: VideoMetadata = { ..., duration: 0, ..., codec:
\* "unknown", frameRate: 0, ..., isProcessed: false, processingStatus: "pending" }
NewVideo ==
  [duration |-> 0, width |-> 0, height |-> 0, bitrate |-> 0,
   codec |-> "unknown", frameRate |-> 0, isProcessed |-> FALSE,
   processingStatus |-> "pending", hlsPath |-> Undefined]

\* Object.assign(videoMetadata, metadata)
ObjectAssign(target, metadata) ==
  [target EXCEPT !.duration = metadata.duration,
                 !.width = metadata.width,
                 !.height = metadata.height,
                 !.bitrate = metadata.bitrate,
                 !.codec = metadata.codec,
                 !.frameRate = metadata.frameRate]

\* `/hls/${videoId}/master.m3u8`
hlsPath(j) == "/hls/" \o j \o "/master.m3u8"

\* uploadVideo up to `await this.videoService.getVideoMetadata(...)`
uploadVideo(j) ==
  /\ probe[j] = "idle"
  /\ video' = [video EXCEPT ![j] = NewVideo]
  /\ probe' = [probe EXCEPT ![j] = "running"]
  /\ UNCHANGED <<videoMetadata, process, response>>
  /\ UNCHANGED service

\* uploadVideo from the point where videoMetadata holds what is to be stored:
\* this.videoMetadata.set; processVideoAsync, not awaited, runs up to the
\* first await of convertToHLS; res.status(201).json(response)
StoreAndStart(j, metadata) ==
  /\ videoMetadata' = videoMetadata \cup {j}
  /\ video' = [video EXCEPT ![j] = [metadata EXCEPT !.processingStatus = "processing"]]
  /\ process' = [process EXCEPT ![j] = "converting"]
  /\ convertToHLS(j)
  /\ response' = [response EXCEPT ![j] = [status |-> 201, data |-> video'[j]]]

probeRejectedAborts(j, err) ==
  /\ probe[j] = "running"
  /\ probe' = [probe EXCEPT ![j] = "rejected"]
  /\ response' = [response EXCEPT ![j] = [status |-> 500, data |-> NoVideo]]
  /\ UNCHANGED <<video, videoMetadata, process>>
  /\ UNCHANGED service

\* getVideoMetadata resolves: Object.assign, then the rest of uploadVideo
probeResolved(j, metadata) ==
  /\ probe[j] = "running"
  /\ probe' = [probe EXCEPT ![j] = "resolved"]
  /\ StoreAndStart(j, ObjectAssign(video[j], metadata))

\* getVideoMetadata rejects: the catch logs, then the rest of uploadVideo
probeRejected(j, err) ==
  /\ probe[j] = "running"
  /\ probe' = [probe EXCEPT ![j] = "rejected"]
  /\ StoreAndStart(j, video[j])

\* the promise convertToHLS returned to call j of processVideoAsync settles
\* in this step
Fulfilled(j) == process[j] = "converting" /\ pc[j] # "returned" /\ pc'[j] = "returned"

Rejected(j) == process[j] = "converting" /\ pc[j] # "thrown" /\ pc'[j] = "thrown"

\* processVideoAsync after `await convertToHLS(...)`: the record is completed
\* up to `await fs.promises.unlink(inputPath)`, or the catch block runs
processVideoAsync ==
  /\ video' = [j \in JobIds |->
                 IF Fulfilled(j)
                 THEN [video[j] EXCEPT !.processingStatus = "completed",
                                       !.isProcessed = TRUE,
                                       !.hlsPath = hlsPath(j)]
                 ELSE IF Rejected(j)
                 THEN [video[j] EXCEPT !.processingStatus = "failed"]
                 ELSE video[j]]
  /\ process' = [j \in JobIds |->
                   IF Fulfilled(j) THEN "unlinking"
                   ELSE IF Rejected(j) THEN "caught"
                   ELSE process[j]]
  /\ UNCHANGED <<probe, videoMetadata, response>>

\* fs.promises.unlink(inputPath) returns
unlinkDone(j) ==
  /\ process[j] = "unlinking"
  /\ process' = [process EXCEPT ![j] = "done"]
  /\ UNCHANGED <<probe, video, videoMetadata, response>>
  /\ UNCHANGED service

\* fs.promises.unlink(inputPath) throws: the catch block runs
unlinkFail(j) ==
  /\ process[j] = "unlinking"
  /\ video' = [video EXCEPT ![j].processingStatus = "failed"]
  /\ process' = [process EXCEPT ![j] = "caught"]
  /\ UNCHANGED <<probe, videoMetadata, response>>
  /\ UNCHANGED service

Next ==
  \/ \E j \in JobIds : convertToHLS(j)
       /\ UNCHANGED <<controller, ffprobe>>
  \/ \E j \in JobIds, i \in 1..N : mkdirDone(j, i)
       /\ UNCHANGED <<controller, ffprobe>>
  \/ \E j \in JobIds, i \in 1..N, err \in Errors : mkdirFail(j, i, err)
       /\ UNCHANGED <<controller, ffprobe>>
  \/ \E j \in JobIds, i \in 1..N, p \in Percents : onProgress(j, i, p)
       /\ UNCHANGED <<controller, ffprobe>>
  \/ \E j \in JobIds, i \in 1..N : onEnd(j, i)
       /\ UNCHANGED <<controller, ffprobe>>
  \/ \E j \in JobIds, i \in 1..N, err \in Errors : onError(j, i, err)
       /\ UNCHANGED <<controller, ffprobe>>
  \/ \E j \in JobIds : masterWritten(j)
       /\ UNCHANGED <<controller, ffprobe>>
  \/ \E j \in JobIds, err \in Errors, created \in BOOLEAN : masterWriteFail(j, err, created)
       /\ UNCHANGED <<controller, ffprobe>>
  \/ \E j \in JobIds : thumbnailEnd(j)
       /\ UNCHANGED <<controller, ffprobe>>
  \/ \E j \in JobIds : thumbnailError(j)
       /\ UNCHANGED <<controller, ffprobe>>
  \/ \E maxAgeHours \in MaxAges : cleanupOldJobs(maxAgeHours)
       /\ UNCHANGED <<controller, ffprobe>>
  \/ \E hours \in TickHours : Tick(hours)
       /\ UNCHANGED <<controller, ffprobe>>

\* concurrent jobs, each over a ladder of one entry
Spec == Init /\ [][Next]_vars

\* one job over a ladder of LadderLen entries
SpecPipeline == InitPipeline /\ [][Next]_vars

\* one job over every window of LadderLen consecutive entries of the
\* configured ladder
InitLadder ==
  \E a \in 1..(Len(BITRATE_LADDER) - LadderLen + 1) :
    InitWith(SubSeq(BITRATE_LADDER, a, a + LadderLen - 1), {"job-a"}) /\ NoFfprobe

SpecLadder == InitLadder /\ [][Next]_vars

\* the service driven by upload requests
NextUpload ==
  \/ \E j \in JobIds : uploadVideo(j)
       /\ UNCHANGED ffprobe
  \/ \E j \in JobIds, metadata \in ProbeResults : probeResolved(j, metadata)
       /\ UNCHANGED ffprobe
  \/ \E j \in JobIds, err \in ProbeErrors : probeRejected(j, err)
       /\ UNCHANGED ffprobe
  \/ \E j \in JobIds, i \in 1..N : mkdirDone(j, i)
       /\ processVideoAsync /\ UNCHANGED ffprobe
  \/ \E j \in JobIds, i \in 1..N, err \in Errors : mkdirFail(j, i, err)
       /\ processVideoAsync /\ UNCHANGED ffprobe
  \/ \E j \in JobIds, i \in 1..N, p \in Percents : onProgress(j, i, p)
       /\ processVideoAsync /\ UNCHANGED ffprobe
  \/ \E j \in JobIds, i \in 1..N : onEnd(j, i)
       /\ processVideoAsync /\ UNCHANGED ffprobe
  \/ \E j \in JobIds, i \in 1..N, err \in Errors : onError(j, i, err)
       /\ processVideoAsync /\ UNCHANGED ffprobe
  \/ \E j \in JobIds : masterWritten(j)
       /\ processVideoAsync /\ UNCHANGED ffprobe
  \/ \E j \in JobIds, err \in Errors, created \in BOOLEAN : masterWriteFail(j, err, created)
       /\ processVideoAsync /\ UNCHANGED ffprobe
  \/ \E j \in JobIds : thumbnailEnd(j)
       /\ processVideoAsync /\ UNCHANGED ffprobe
  \/ \E j \in JobIds : thumbnailError(j)
       /\ processVideoAsync /\ UNCHANGED ffprobe
  \/ \E j \in JobIds : unlinkDone(j)
       /\ UNCHANGED ffprobe
  \/ \E j \in JobIds : unlinkFail(j)
       /\ UNCHANGED ffprobe
  \/ \E maxAgeHours \in MaxAges : cleanupOldJobs(maxAgeHours)
       /\ UNCHANGED <<controller, ffprobe>>
  \/ \E hours \in TickHours : Tick(hours)
       /\ UNCHANGED <<controller, ffprobe>>

\* one upload over a ladder of LadderLen entries
SpecUpload == InitPipeline /\ [][NextUpload]_vars

\* parseFrameRate over the frame-rate strings
InitFrameRate ==
  /\ InitWith(SubSeq(BITRATE_LADDER, 1, 1), {"job-a"})
  /\ r_frame_rate \in FrameRateStrs
  /\ frameRate = NotReturned

NextFrameRate == callParseFrameRate

SpecFrameRate == InitFrameRate /\ [][NextFrameRate]_vars

\* the ladder of the scenario: [240p, 360p]
ScenarioLadder == SubSeq(BITRATE_LADDER, 1, 2)

\* one call of convertToHLS
OneCall == {"job-a"}

\* one call of convertToHLS over the ladder of the scenario
InitLive == InitWith(ScenarioLadder, OneCall) /\ NoFfprobe

\* fs.mkdir of one ladder entry returns or throws
MkdirReturns(j, i) ==
  /\ mkdirDone(j, i) \/ \E err \in Errors : mkdirFail(j, i, err)
  /\ UNCHANGED <<controller, ffprobe>>

\* the ffmpeg command of one ladder entry emits 'end' or 'error'
EncoderReports(j, i) ==
  /\ onEnd(j, i) \/ \E err \in Errors : onError(j, i, err)
  /\ UNCHANGED <<controller, ffprobe>>

\* fs.writeFile of the master playlist returns or throws
WriteFileReturns(j) ==
  /\ \/ \E err \in Errors, created \in BOOLEAN : masterWriteFail(j, err, created)
     \/ masterWritten(j)
  /\ UNCHANGED <<controller, ffprobe>>

\* the screenshots command emits 'end' or 'error'
ThumbnailReports(j) ==
  /\ thumbnailEnd(j) \/ thumbnailError(j)
  /\ UNCHANGED <<controller, ffprobe>>

\* every file-system call returns and every command reports in the end
Fairness ==
  \A j \in OneCall :
    /\ WF_vars(WriteFileReturns(j))
    /\ WF_vars(ThumbnailReports(j))
    /\ \A i \in 1..Len(ScenarioLadder) :
         /\ WF_vars(MkdirReturns(j, i))
         /\ WF_vars(EncoderReports(j, i))

\* one call of convertToHLS whose commands all report
SpecLive == InitLive /\ [][Next]_vars /\ Fairness

(***************************************************************************)
(* Properties.                                                             *)
(***************************************************************************)
Terminal == {"completed", "failed"}

\* C1: the progress stored on a job never decreases, whatever the
\* interleaving of the progress events of its ladder entries.
C1_ProgressNeverDecreases ==
  [][\A j \in JobIds : job'[j].progress >= job[j].progress]_vars

\* C2: a job's status only moves processing -> completed or processing ->
\* failed after its creation; once completed or failed it never changes.
C2_StatusMonotonic ==
  [][\A j \in JobIds :
       job'[j].status # job[j].status =>
         <<job[j].status, job'[j].status>> \in
            { <<"none", "processing">>,
              <<"processing", "completed">>,
              <<"processing", "failed">> }]_vars

\* a failed job, evicted after siblings of the failed encode have ended
C2_Witness ==
  \E j \in JobIds :
    /\ job[j].status = "failed"
    /\ j \notin processingJobs
    /\ \E i \in 1..N : variant[j][i] = "error"
    /\ \E i \in 1..N : variant[j][i] = "end"

\* C3: master.m3u8 exists under a job's output directory only if the job's
\* status is completed.
C3_MasterOnlyIfCompleted ==
  \A j \in JobIds :
    Exists(j, masterPlaylistPath) => job[j].status = "completed"

\* C4: once the encode of one ladder entry has failed, the job is failed,
\* generateMasterPlaylist is not running or run, and no master.m3u8 exists.
C4_AllOrNothing ==
  \A j \in JobIds :
    (\E i \in 1..N : variant[j][i] = "error") =>
      /\ job[j].status = "failed"
      /\ pc[j] = "thrown"
      /\ ~Exists(j, masterPlaylistPath)
      /\ masterPlaylistPath \notin Range(outputPaths[j])

\* one encode failed while another one ended
C4_Witness ==
  \E j \in JobIds : \E i, k \in 1..N :
    /\ variant[j][i] = "error"
    /\ variant[j][k] = "end"
    /\ job[j].status = "failed"

\* C5: a job in a final status holds progress 100 exactly if that status
\* is completed.
C5_HundredIffCompleted ==
  \A j \in JobIds :
    job[j].status \in Terminal =>
      (job[j].progress = 100 <=> job[j].status = "completed")

\* C6: whether the thumbnail is extracted or fails, the job whose master
\* playlist is written ends completed with progress 100, and its outputPaths
\* are the paths pushed before, plus the thumbnail path if it was extracted.
C6_ThumbnailIndependence ==
  [][\A j \in JobIds :
       (pc[j] = "thumbnail" /\ pc'[j] # "thumbnail") =>
         /\ job'[j].status = "completed"
         /\ job'[j].progress = 100
         /\ WithoutThumbnail(job'[j].outputPaths) = outputPaths[j]
         /\ (thumbnailPath \in Range(job'[j].outputPaths)
               <=> Exists(j, thumbnailPath)')]_vars

\* a job completed after its thumbnail failed
C6_Witness ==
  \E j \in JobIds :
    /\ pc[j] = "returned"
    /\ job[j].status = "completed"
    /\ job[j].progress = 100
    /\ thumbnailPath \notin Range(job[j].outputPaths)
    /\ masterPlaylistPath \in Range(job[j].outputPaths)

\* C7 as stated: a call of convertToHLS makes its job visible with status
\* pending and progress 0, no ffmpeg command of the job being started.
C7_CreatedPending ==
  [][\A j \in JobIds :
       (pc[j] = "idle" /\ pc'[j] # "idle") =>
         /\ j \in processingJobs'
         /\ job'[j].status = "pending"
         /\ job'[j].progress = 0
         /\ \A i \in 1..N : variant'[j][i] # "running"]_vars

\* C7 as amended: a call of convertToHLS makes its job visible to
\* getProcessingJob and getAllProcessingJobs with status processing and
\* progress 0, no ffmpeg command of the job being started; and as long as none
\* has been started the job has progress 0 and is no longer pending or queued.
C7_CreatedProcessing ==
  [][\A j \in JobIds :
       /\ (pc[j] = "idle" /\ pc'[j] # "idle") =>
            /\ getProcessingJob(j)' = job'[j]
            /\ job'[j] \in getAllProcessingJobs'
            /\ job'[j].status = "processing"
            /\ job'[j].progress = 0
            /\ \A i \in 1..N : variant'[j][i] = "mkdir"
       /\ (\E i \in 1..N : variant'[j][i] = "running") => pc'[j] # "idle"
       /\ (\A i \in 1..N : variant'[j][i] = "mkdir") =>
            /\ job'[j].status = "processing"
            /\ job'[j].progress = 0]_vars

\* a job visible in the registry before any of its ffmpeg commands is started
C7_Witness ==
  \E j \in JobIds :
    /\ getProcessingJob(j).status = "processing"
    /\ getProcessingJob(j).progress = 0
    /\ job[j] \in getAllProcessingJobs
    /\ \A i \in 1..N : variant[j][i] = "mkdir"

\* the jobs cleanupOldJobs(maxAgeHours) keeps
Kept(maxAgeHours) ==
  {j \in processingJobs :
     \/ job[j].completedAt = NoTime
     \/ getTime(job[j].completedAt) >= now - maxAgeHours * MsPerHour}

\* C8: cleanupOldJobs(maxAgeHours) leaves in the registry exactly the jobs
\* that were in it and have no completedAt or a completedAt not older than
\* now - maxAgeHours; and no step removes a job that has no completedAt.
C8_Eviction ==
  [][/\ \A h \in MaxAges : cleanupOldJobs(h) => processingJobs' = Kept(h)
     /\ \A j \in processingJobs :
          job[j].completedAt = NoTime => j \in processingJobs']_vars

\* a finished job was evicted while a job started before it finished, and
\* still running, is kept
C8_Witness ==
  \E j, r \in JobIds :
    /\ job[j].completedAt # NoTime
    /\ pc[j] # "idle" /\ j \notin processingJobs
    /\ r \in processingJobs /\ job[r].status = "processing"
    /\ getTime(job[r].startedAt) < getTime(job[j].completedAt)

\* a finished job is kept although the clock has advanced since it finished
C8_WitnessKept ==
  \E k \in processingJobs :
    /\ job[k].completedAt # NoTime
    /\ getTime(job[k].completedAt) < now

\* C9: a completed job has progress 100, a completedAt, and outputPaths with
\* the master playlist path and the playlist path of every ladder entry.
C9_CompletedJobIsWhole ==
  \A j \in JobIds :
    job[j].status = "completed" =>
      /\ job[j].progress = 100
      /\ job[j].completedAt # NoTime
      /\ masterPlaylistPath \in Range(job[j].outputPaths)
      /\ \A i \in 1..N : playlistPath(i) \in Range(job[j].outputPaths)

\* a completed job still in the registry
C9_Witness ==
  \E j \in processingJobs :
    /\ job[j].status = "completed"
    /\ Len(job[j].outputPaths) >= N + 1

\* C10: a failed job has a non-empty error message, a completedAt, and
\* outputPaths without the master playlist path.
C10_FailedJob ==
  \A j \in JobIds :
    job[j].status = "failed" =>
      /\ job[j].error \notin {NoError, ""}
      /\ job[j].completedAt # NoTime
      /\ masterPlaylistPath \notin Range(job[j].outputPaths)

\* a job failed by the second ladder entry after the first one ended
C10_Witness ==
  \E j \in processingJobs :
    /\ job[j].status = "failed"
    /\ N >= 2
    /\ variant[j][1] = "end"
    /\ variant[j][2] = "error"

\* the jobs whose master playlist has been written in full
MasterWritten ==
  {j \in JobIds : \E f \in files[j] : f.path = masterPlaylistPath /\ f.complete}

IsStreamInf(line) == line[1] = "#EXT-X-STREAM-INF:BANDWIDTH="

IsVariantUri(line) == Len(line) = 2 /\ line[2] = "/playlist.m3u8"

\* C12: the master playlist has exactly one #EXT-X-STREAM-INF block per
\* ladder entry, in ladder order, each followed by the playlist of its
\* entry, whatever the order in which the encodes finished.
C12_LadderCompleteness ==
  \A j \in MasterWritten :
    LET c == Content(j, masterPlaylistPath)
        infs == SelectSeq(c, IsStreamInf)
        uris == SelectSeq(c, IsVariantUri)
    IN /\ Len(infs) = N
       /\ Len(uris) = N
       /\ \A i \in 1..N :
            /\ infs[i][4] = ladder[i].resolution
            /\ uris[i][1] = ladder[i].name
       /\ \A k \in 1..Len(c) :
            IsStreamInf(c[k]) => k < Len(c) /\ IsVariantUri(c[k + 1])

\* the master playlist was written after the second ladder entry finished
\* before the first
C12_Witness ==
  \E j \in MasterWritten :
    /\ N >= 2
    /\ outputPaths[j][1] = playlistPath(2)
    /\ playlistPath(1) \in Range(outputPaths[j])

\* the number n of a bitrate string "<n>k" of the configured ladder
Kilo(str) ==
  CASE str = "400k"  -> 400
    [] str = "800k"  -> 800
    [] str = "1200k" -> 1200
    [] str = "2500k" -> 2500
    [] str = "5000k" -> 5000
    [] str = "64k"   -> 64
    [] str = "96k"   -> 96
    [] str = "128k"  -> 128
    [] str = "192k"  -> 192

\* C13: the BANDWIDTH written for a ladder entry is the integer sum of its
\* video and audio bitrates, "<n>k" counting n*1000: 464000 for 400k+64k,
\* 5192000 for 5000k+192k.
C13_BandwidthIsSum ==
  \A j \in MasterWritten :
    LET infs == SelectSeq(Content(j, masterPlaylistPath), IsStreamInf)
    IN \A i \in 1..N :
         /\ i <= Len(infs)
         /\ infs[i][2] = ToString(1000 * Kilo(ladder[i].videoBitrate)
                                   + 1000 * Kilo(ladder[i].audioBitrate))
         /\ ladder[i].name = "240p" => infs[i][2] = "464000"
         /\ ladder[i].name = "1080p" => infs[i][2] = "5192000"

\* a master playlist written for a ladder holding the 1080p entry
C13_Witness ==
  \E j \in MasterWritten :
    \E i \in 1..N :
      /\ ladder[i].name = "1080p"
      /\ Content(j, masterPlaylistPath)[3 * i + 1][2] = "5192000"

\* C14: a job leaves the registry only in a step of cleanupOldJobs; every
\* other step keeps each registered job answered by getProcessingJob and
\* listed by getAllProcessingJobs.
C14_OnlySweepRemoves ==
  [][\A j \in processingJobs :
       \/ /\ j \in processingJobs'
          /\ getProcessingJob(j)' = job'[j]
          /\ job'[j] \in getAllProcessingJobs'
       \/ \E maxAgeHours \in MaxAges : cleanupOldJobs(maxAgeHours)]_vars

\* one job has gone through the whole pipeline and has been evicted, another
\* one has finished and is still registered
C14_Witness ==
  \E j, r \in JobIds :
    /\ j \notin processingJobs
    /\ pc[j] = "returned"
    /\ r \in processingJobs
    /\ job[r].status \in Terminal

\* C15: master.m3u8 exists only when every ladder entry's encode has ended
\* and its variant playlist is complete.
C15_MasterAfterAllVariants ==
  \A j \in JobIds :
    (pc[j] = "master" \/ Exists(j, masterPlaylistPath)) =>
      \A i \in 1..N :
        /\ variant[j][i] = "end"
        /\ FileOf(playlistPath(i), TRUE) \in files[j]

\* the master playlist of a ladder of several entries has been written
C15_Witness ==
  \E j \in MasterWritten :
    /\ N >= 2
    /\ \A i \in 1..N : variant[j][i] = "end"

\* C16: once a job is failed, no later event of its sibling encodes changes
\* its status, progress, error, completedAt or outputPaths.
C16_FailedJobIsFrozen ==
  [][\A j \in JobIds :
       job[j].status = "failed" => job'[j] = job[j]]_vars

\* the variables of one call of convertToHLS
CallState(j) ==
  <<job[j], pc[j], variant[j], lastPercent[j], outputPaths[j], files[j]>>

\* C20: a step that changes anything of one job changes nothing of any other
\* job.
C20_JobsIsolated ==
  [][\A j, k \in JobIds :
       (j # k /\ CallState(j)' # CallState(j)) =>
         CallState(k)' = CallState(k)]_vars

\* one job has failed while another one, started before the failure, went on
\* to complete
C20_Witness ==
  \E j, k \in JobIds :
    /\ job[j].status = "failed"
    /\ job[k].status = "completed"
    /\ getTime(job[k].startedAt) <= getTime(job[j].completedAt)
    /\ getTime(job[j].startedAt) <= getTime(job[k].completedAt)

\* a step that is not a report of the screenshots command of call j
NoThumbnailReport(j) == Next /\ ~thumbnailEnd(j) /\ ~thumbnailError(j)

\* C18: once every encode has ended and the master playlist is written, the
\* job can be completed by a step that is not a report of the Thumbnail
\* capability, so it is completed even if that capability never reports.
C18_CompletesWithoutThumbnail ==
  \A j \in MasterWritten :
    job[j].status = "processing" =>
      ENABLED (NoThumbnailReport(j) /\ job'[j].status = "completed")

\* the promise a call of convertToHLS returned to its caller
PromiseOf(j) ==
  IF pc[j] = "returned"
  THEN [state |-> "fulfilled", value |-> [outputPaths |-> outputPaths[j]]]
  ELSE IF pc[j] = "thrown"
  THEN [state |-> "rejected", value |-> [error |-> job[j].error]]
  ELSE [state |-> "pending", value |-> [none |-> TRUE]]

\* C11 as stated: while the job is processing, the caller of convertToHLS
\* already holds the job id as the value handed back.
C11_JobIdHandedBack ==
  \A j \in JobIds :
    job[j].status = "processing" =>
      /\ PromiseOf(j).state = "fulfilled"
      /\ PromiseOf(j).value = [jobId |-> j]

\* C11: the upload is answered in the step that starts the pipeline, with
\* status 201 and the video record, while the job is processing and no
\* encode has ended; what convertToHLS hands back stays pending until the
\* job is completed or failed.
C11_AnsweredWhileProcessing ==
  [][\A j \in JobIds :
       /\ (response[j] = NoResponse /\ response'[j] # NoResponse) =>
            /\ response'[j].status = 201
            /\ response'[j].data.processingStatus = "processing"
            /\ j \in processingJobs'
            /\ job'[j].status = "processing"
            /\ \A i \in 1..N : variant'[j][i] = "mkdir"
            /\ PromiseOf(j)'.state = "pending"
       /\ PromiseOf(j)'.state # "pending" => job'[j].status \in Terminal]_vars

\* after the answer one encode has ended and another one is still running
C11_Witness ==
  \E j \in JobIds :
    /\ response[j].status = 201
    /\ job[j].status = "processing"
    /\ \E i \in 1..N : variant[j][i] = "end"
    /\ \E i \in 1..N : variant[j][i] = "running"

\* a step that is not the report of ffprobe to upload j
NoProbeReport(j) == NextUpload /\ probe'[j] = probe[j]

\* C17: while the Prober of an upload has not returned, the pipeline of that
\* upload has been started or can be started by a step that is not the
\* Prober's report.
C17_ProberNeverGates ==
  \A j \in JobIds :
    (probe[j] = "running" /\ pc[j] = "idle") =>
      ENABLED (NoProbeReport(j) /\ j \in processingJobs')

\* C19: after a failed probe the video is stored with the defaults
\* duration = 0, width = 0, height = 0, bitrate = 0, codec = "unknown",
\* frameRate = 0, the upload is answered, and the pipeline has been started.
C19_ProbeFailureNonFatal ==
  \A j \in JobIds :
    probe[j] = "rejected" =>
      /\ j \in videoMetadata
      /\ video[j].duration = 0
      /\ video[j].width = 0
      /\ video[j].height = 0
      /\ video[j].bitrate = 0
      /\ video[j].codec = "unknown"
      /\ video[j].frameRate = 0
      /\ response[j].status = 201
      /\ job[j].status # "none"
      /\ \A i \in 1..N : variant[j][i] # "idle"

\* a video whose probe failed has been converted
C19_Witness ==
  \E j \in JobIds :
    /\ probe[j] = "rejected"
    /\ video[j].processingStatus = "completed"
    /\ job[j].status = "completed"

\* C21 as stated: while an encode of a job has emitted neither end nor
\* error, the job is neither completed nor failed.
C21_StuckEncoderNeverTerminal ==
  \A j \in JobIds :
    (\E i \in 1..N : variant[j][i] = "running") =>
      job[j].status \notin Terminal

\* C21: while an encode of a job has emitted neither end nor error, the job
\* is not completed, and a step that changes its status is the failure of
\* another ladder entry, which makes the job failed.
C21_StuckEncoderNeverCompleted ==
  [][\A j \in JobIds :
       (\E i \in 1..N : variant[j][i] = "running" /\ variant'[j][i] = "running") =>
         /\ job'[j].status # "completed"
         /\ job'[j].status # job[j].status =>
              /\ job'[j].status = "failed"
              /\ \E k \in 1..N :
                   variant[j][k] # "error" /\ variant'[j][k] = "error"]_vars

\* every other ladder entry has ended and the job waits for the one that
\* has not reported
C21_Witness ==
  \E j \in JobIds :
    /\ N >= 2
    /\ job[j].status = "processing"
    /\ \E i \in 1..N :
         /\ variant[j][i] = "running"
         /\ \A k \in 1..N \ {i} : variant[j][k] = "end"

\* the paths of the files of call j that have been written in full
Written(j) == {f.path : f \in {g \in files[j] : g.complete}}

IsPrefix(old, new) ==
  /\ Len(old) <= Len(new)
  /\ SubSeq(new, 1, Len(old)) = old

\* C22: every step leaves in the outputPaths of a job, and in the array
\* convertToHLS fills, only paths of files written in full, and keeps every
\* path that was there, in place.
C22_OutputPathsWrittenAndKept ==
  [][\A j \in JobIds :
       /\ Range(outputPaths'[j]) \subseteq Written(j)'
       /\ Range(job'[j].outputPaths) \subseteq Written(j)'
       /\ IsPrefix(outputPaths[j], outputPaths'[j])
       /\ IsPrefix(job[j].outputPaths, job'[j].outputPaths)]_vars

\* a job completed after its thumbnail failed still lists every variant
\* playlist and the master playlist
C22_Witness ==
  \E j \in JobIds :
    /\ job[j].status = "completed"
    /\ thumbnailPath \notin Written(j)
    /\ Len(job[j].outputPaths) = N + 1
    /\ Range(job[j].outputPaths) = Written(j)

\* r is num/den rounded to the nearest integer, halves upwards (den > 0)
IsRounded(r, num, den) ==
  /\ 2 * den * r - den <= 2 * num
  /\ 2 * num < 2 * den * r + den

\* C23: a step that changes the progress of a job without changing its
\* status is a progress event of a running ladder entry with index i - 1
\* and percent 100 * p, and stores round(100 * (i - 1 + p) / N); the
\* progress of every job is an integer in 0..100.
C23_ProgressFormulaAndRange ==
  [][\A j \in JobIds :
       /\ job'[j].progress \in 0..100
       /\ (job'[j].progress # job[j].progress /\ job'[j].status = job[j].status) =>
            \E i \in 1..N :
              /\ variant[j][i] = "running"
              /\ lastPercent'[j][i] \in 0..100
              /\ IsRounded(job'[j].progress, 100 * (i - 1) + lastPercent'[j][i], N)]_vars

\* the second ladder entry reported a quarter of its encode and the rounded
\* value is stored (62.5 gives 63 over a ladder of two entries)
C23_Witness ==
  \E j \in JobIds :
    /\ N >= 2
    /\ variant[j][2] = "running"
    /\ lastPercent[j][2] = 25
    /\ job[j].progress \notin {0, 100}
    /\ IsRounded(job[j].progress, 100 + 25, N)

\* the bytes of a file written in full
Text(j, path) == (CHOOSE f \in files[j] : f.path = path /\ f.complete).text

\* the block of one ladder entry, as the emission rules give it
BlockText(v) ==
  "#EXT-X-STREAM-INF:BANDWIDTH="
  \o ToString(1000 * Kilo(v.videoBitrate) + 1000 * Kilo(v.audioBitrate))
  \o ",RESOLUTION=" \o v.resolution
  \o ",CODECS=\"avc1.42e00a,mp4a.40.2\"\n"
  \o v.name \o "/playlist.m3u8\n"

RECURSIVE BlocksText(_)
BlocksText(entries) ==
  IF entries = <<>> THEN ""
  ELSE BlockText(Head(entries)) \o "\n" \o BlocksText(Tail(entries))

\* the text of the scenario: the ladder [240p 400k/64k, 360p 800k/96k]
ScenarioText ==
  "#EXTM3U\n#EXT-X-VERSION:3\n\n"
  \o "#EXT-X-STREAM-INF:BANDWIDTH=464000,RESOLUTION=426x240,CODECS=\"avc1.42e00a,mp4a.40.2\"\n"
  \o "240p/playlist.m3u8\n\n"
  \o "#EXT-X-STREAM-INF:BANDWIDTH=896000,RESOLUTION=640x360,CODECS=\"avc1.42e00a,mp4a.40.2\"\n"
  \o "360p/playlist.m3u8\n"

\* C24: the master playlist is the lines #EXTM3U, #EXT-X-VERSION:3 and an
\* empty line, then per ladder entry in ladder order its STREAM-INF line, its
\* playlist line and an empty line, joined by newlines; for the ladder
\* [240p, 360p] it is the text of the scenario.
C24_MasterText ==
  \A j \in MasterWritten :
    LET expected == "#EXTM3U\n#EXT-X-VERSION:3\n\n" \o BlocksText(ladder)
    IN /\ Text(j, masterPlaylistPath) \o "\n" = expected
       /\ ladder = ScenarioLadder =>
            Text(j, masterPlaylistPath) = ScenarioText

\* the master playlist of the ladder [240p, 360p] has been written
C24_Witness ==
  \E j \in MasterWritten :
    /\ ladder = ScenarioLadder
    /\ Text(j, masterPlaylistPath) = ScenarioText

\* C25: parseFrameRate returns round(num/den) for "num/den" with den > 0
\* (30 for "30/1" and for "30000/1001"), num for a string without a
\* denominator, and 0 for an absent string.
C25_ParseFrameRate ==
  frameRate.returned =>
    /\ \A n \in Numerators, d \in Denominators :
         r_frame_rate = StringOf(Decimal(n) \o <<"/">> \o Decimal(d)) =>
           IsRounded(frameRate.value, n, d)
    /\ \A n \in Numerators :
         r_frame_rate \in {StringOf(Decimal(n)), StringOf(Decimal(n) \o <<"/">>)} =>
           frameRate.value = n
    /\ ~r_frame_rate.defined => frameRate.value = 0
    /\ r_frame_rate = StringOf(<<"3", "0", "/", "1">>) => frameRate.value = 30
    /\ r_frame_rate = StringOf(<<"3", "0", "0", "0", "0", "/", "1", "0", "0", "1">>) =>
         frameRate.value = 30

\* "30000/1001" has been parsed to 30
C25_Witness ==
  /\ frameRate.returned
  /\ r_frame_rate = StringOf(Decimal(30000) \o <<"/">> \o Decimal(1001))
  /\ frameRate.value = 30

\* C26: when every file-system call returns, every encode emits end or
\* error and the thumbnail command emits end or error, a processing job
\* becomes completed or failed; it becomes completed once every encode has
\* ended and the master playlist is written, and in no other case.
C26_Terminates ==
  \A j \in OneCall :
    /\ (job[j].status = "processing") ~> (job[j].status \in Terminal)
    /\ (j \in MasterWritten) ~> (job[j].status = "completed")
    /\ [](job[j].status = "completed" =>
            /\ j \in MasterWritten
            /\ \A i \in 1..N : variant[j][i] = "end")
    /\ [](job[j].status = "failed" =>
            \/ j \notin MasterWritten
            \/ \E i \in 1..N : variant[j][i] = "error")

\* the job is completed with every encode ended, the master playlist and
\* the thumbnail written
C26_Witness ==
  \E j \in OneCall :
    /\ job[j].status = "completed"
    /\ j \in MasterWritten
    /\ thumbnailPath \in Written(j)
    /\ \A i \in 1..N : variant[j][i] = "end"

\* the order of the values of VideoMetadata.processingStatus
StatusRank(status) ==
  CASE status = "none" -> 0
    [] status = "pending" -> 1
    [] status = "processing" -> 2
    [] status \in {"completed", "failed"} -> 3

\* C27: the processingStatus of a video record only moves forward through
\* pending, processing, completed or failed; a completed record stays
\* completed; isProcessed or a set hlsPath implies completed.
C27_VideoFollowsJob ==
  [][\A j \in JobIds :
       /\ StatusRank(video[j].processingStatus) <= StatusRank(video'[j].processingStatus)
       /\ video[j].processingStatus = "completed" =>
            video'[j].processingStatus = "completed"
       /\ (video'[j].isProcessed \/ video'[j].hlsPath # Undefined) =>
            video'[j].processingStatus = "completed"]_vars

\* the calls of convertToHLS whose job has the given status
JobsWith(status) == {j \in JobIds : job[j].status = status}

\* C28: the gauge labelled processing equals the number of created jobs that
\* are neither completed nor failed and is never negative; the gauges
\* labelled completed and failed count the completed and the failed jobs.
C28_GaugeBookkeeping ==
  /\ gauge["processing"] = Cardinality(JobsWith("processing"))
  /\ gauge["processing"] >= 0
  /\ gauge["completed"] = Cardinality(JobsWith("completed"))
  /\ gauge["failed"] = Cardinality(JobsWith("failed"))

\* of two concurrent jobs one has completed and the other has failed
C28_Witness ==
  /\ gauge["processing"] = 0
  /\ gauge["completed"] = 1
  /\ gauge["failed"] = 1
  /\ Cardinality(JobIds) = 2

\* C29: the path of a variant playlist is appended in the step in which its
\* encode ends; the outputPaths of a completed job are the N variant
\* playlist paths, each once, then the master playlist path, then the
\* thumbnail path if and only if the thumbnail was extracted.
C29_OutputPathsOrder ==
  [][\A j \in JobIds :
       /\ \A i \in 1..N :
            (variant[j][i] # "end" /\ variant'[j][i] = "end") =>
              outputPaths'[j] = Append(outputPaths[j], playlistPath(i))
       /\ job'[j].status = "completed" =>
            LET paths == job'[j].outputPaths
            IN  /\ Len(paths) \in {N + 1, N + 2}
                /\ {paths[k] : k \in 1..N} = {playlistPath(i) : i \in 1..N}
                /\ paths[N + 1] = masterPlaylistPath
                /\ Len(paths) = N + 2 <=> thumbnailPath \in Written(j)'
                /\ Len(paths) = N + 2 => paths[N + 2] = thumbnailPath]_vars

\* a completed job whose second ladder entry finished first and whose
\* thumbnail was extracted
C29_Witness ==
  \E j \in JobIds :
    /\ job[j].status = "completed"
    /\ N >= 2
    /\ job[j].outputPaths[1] = playlistPath(2)
    /\ Len(job[j].outputPaths) = N + 2

====
